---- MODULE Spec2Model ----
(***************************************************************************)
(* A model of the Database class of pookieDB (src/benchmark.js, lines      *)
(* 51-342): the in-memory record store, its per-field secondary index, the *)
(* LRU result cache, the query operations and the persistence code (load,  *)
(* coalesced temp-file-then-rename save, autosave timer).                  *)
(*                                                                         *)
(* JavaScript runs every piece of code between two awaits atomically, and  *)
(* drains the microtask queue before the next I/O completion or timer      *)
(* callback.  An action of this model is therefore one such run: a public  *)
(* call up to the point where it returns or waits for I/O, or one I/O      *)
(* completion together with every continuation it resumes.                 *)
(*                                                                         *)
(* Abstractions: a JS Set and a result array are modelled as sets (their   *)
(* iteration order is not modelled); a Map whose order can reach a file    *)
(* (this.data) is a sequence of <<key, value>> entries in insertion order. *)
(* An autosave tick whose test fails changes nothing and is left out; what *)
(* Node does with the rejection of a save started by the timer, or with    *)
(* the error event of a worker, is not modelled.                           *)
(***************************************************************************)
EXTENDS Integers, Sequences, FiniteSets, TLC

(***************************************************************************)
(* Bounds and configuration                                                *)
(***************************************************************************)
NumCallers == 2
MaxWorkers == 2
MaxRecords == 3
MaxJobs == 2
MaxTime == 1
MaxInits == 2
\* options.cacheSize; options.batchSize and its default; os.cpus().length / 2
CacheSize == 1
SmallBatch == 2
DefaultBatch == 5000
WorkerCount == 1

Callers == 1..NumCallers
JobIds == 1..MaxJobs

(***************************************************************************)
(* JavaScript values.  A value is <<type, text>>: Num("25") is the number  *)
(* 25 and Str("25") the string "25"; they are different Map keys and are   *)
(* not ===, but have the same template-literal text.                       *)
(***************************************************************************)
Num(s) == <<"num", s>>
Str(s) == <<"str", s>>
TemplateText(v) == v[2]
JSONValue(v) == IF v[1] = "str" THEN "\"" \o v[2] \o "\"" ELSE v[2]

Ids == {Str("x"), Str("y")}
FieldVals == {Num("1"), Num("2")}
Values == Ids \cup FieldVals
Fields == {"id", "a"}

\* null/undefined, shaped like a value so that it compares with one
Null == <<"null", "null">>
\* the value undefined, where the code tells it from null (msgpack does not)
Undefined == <<"undefined", "undefined">>
\* this.savePromise === null
NoJob == 0
Schema == "data.msgpack"
TmpPath == Schema \o ".tmp"
Paths == {Schema, TmpPath}

(***************************************************************************)
(* Objects: a record is a function from the field names it has to values.  *)
(***************************************************************************)
EmptyObj == [k \in {} |-> Null]
Spread(a, b) == [k \in DOMAIN a \cup DOMAIN b |-> IF k \in DOMAIN b THEN b[k] ELSE a[k]]
ObjOf(i, av) == [k \in (IF i = Null THEN {} ELSE {"id"}) \cup (IF av = Null THEN {} ELSE {"a"})
                   |-> IF k = "id" THEN i ELSE av]

(***************************************************************************)
(* JS Map with insertion order: a sequence of <<key, value>> entries.      *)
(***************************************************************************)
MapKeys(m) == {m[i][1] : i \in 1..Len(m)}
MapHas(m, k) == k \in MapKeys(m)
MapPos(m, k) == CHOOSE i \in 1..Len(m) : m[i][1] = k
MapGet(m, k) == m[MapPos(m, k)][2]
MapSet(m, k, v) == IF MapHas(m, k) THEN [m EXCEPT ![MapPos(m, k)] = <<k, v>>]
                   ELSE Append(m, <<k, v>>)
MapDelete(m, k) == SelectSeq(m, LAMBDA e : e[1] # k)
MapValues(m) == [i \in 1..Len(m) |-> m[i][2]]
MapSize(m) == Len(m)
MapFromItems(items) ==
  LET RECURSIVE Build(_, _)
      Build(m, i) == IF i > Len(items) THEN m
                     ELSE Build(MapSet(m, items[i].id, items[i]), i + 1)
  IN Build(<<>>, 1)

(***************************************************************************)
(* The secondary index: this.indexes, Map<field, Map<value, Set<id>>>,     *)
(* as a function field -> (value -> set of ids) on the keys it has.        *)
(***************************************************************************)
EmptyIndex == [k \in {} |-> {}]
IndexHas(idx, k, v) == k \in DOMAIN idx /\ v \in DOMAIN idx[k]

\* lines 217-225 and 258-266: add id under every (key, value) of obj
IndexAdd(idx, id, obj) ==
  [k \in DOMAIN idx \cup DOMAIN obj |->
     IF k \notin DOMAIN obj THEN idx[k]
     ELSE LET vm == IF k \in DOMAIN idx THEN idx[k] ELSE EmptyIndex
          IN [v \in DOMAIN vm \cup {obj[k]} |->
                IF v # obj[k] THEN vm[v]
                ELSE (IF v \in DOMAIN vm THEN vm[v] ELSE {}) \cup {id}]]

\* lines 245-250 and 329-334: delete id under every (key, value) of obj
IndexRemove(idx, id, obj) ==
  [k \in DOMAIN idx |->
     [v \in DOMAIN idx[k] |->
        IF k \in DOMAIN obj /\ obj[k] = v THEN idx[k][v] \ {id} ELSE idx[k][v]]]

\* buildIndexChunk of the worker script (lines 101-111) over entries <<id, obj>>
BuildIndexChunk(entries) ==
  LET RECURSIVE Build(_, _)
      Build(idx, i) == IF i > Len(entries) THEN idx
                       ELSE Build(IndexAdd(idx, entries[i][1], entries[i][2]), i + 1)
  IN Build(EmptyIndex, 1)

(***************************************************************************)
(* The result cache (lru-cache with max and ttl): a sequence of            *)
(* [key, val] entries, least recently used first.                          *)
(***************************************************************************)
CacheKeys(c) == {c[i].key : i \in 1..Len(c)}
CacheHas(c, k) == k \in CacheKeys(c)
CachePos(c, k) == CHOOSE i \in 1..Len(c) : c[i].key = k
CacheVal(c, k) == c[CachePos(c, k)].val
CacheDrop(c, k) == SelectSeq(c, LAMBDA e : e.key # k)
\* get(): a hit becomes the most recently used entry
CacheTouch(c, k) == Append(CacheDrop(c, k), c[CachePos(c, k)])
\* set(): replaces the entry, evicting the least recently used one at capacity
CachePut(c, k, v) ==
  LET rest == CacheDrop(c, k)
      kept == IF Len(rest) >= CacheSize THEN Tail(rest) ELSE rest
  IN Append(kept, [key |-> k, val |-> v])

(***************************************************************************)
(* Files.  msgpack.encode of the record array is a complete file content;  *)
(* a file that is being written holds a truncated encoding, which          *)
(* msgpack.decode rejects.                                                 *)
(***************************************************************************)
Absent == [kind |-> "absent", items |-> <<>>]
Truncated == [kind |-> "truncated", items |-> <<>>]
\* msgpack writes undefined as nil, which decodes to null
PackValue(v) == IF v = Undefined THEN Null ELSE v
Encode(dataArray) ==
  [kind |-> "msgpack",
   items |-> [i \in 1..Len(dataArray) |->
                [k \in DOMAIN dataArray[i] |-> PackValue(dataArray[i][k])]]]
CanDecode(content) == content.kind = "msgpack"
Decode(content) == content.items

(***************************************************************************)
(* Operations on a store s = [data, indexes, cache, dirty, savePromise,    *)
(* jobs, batchSize]: the fields of the Database object the operations use  *)
(* (jobs: the running async bodies of save, by the promise that names      *)
(* them).  Each yields [s, ret, hit, wait]: the store after the            *)
(* synchronous part, the value returned, whether the cache answered, and   *)
(* the save the call waits for before it returns (NoJob: none).             *)
(***************************************************************************)
Out(s, ret, hit, wait) == [s |-> s, ret |-> ret, hit |-> hit, wait |-> wait]

\* lines 143-149, 151-152 and 170: save() up to its first await
StartSave(s) ==
  LET j == CHOOSE i \in JobIds \ DOMAIN s.jobs : \A o \in JobIds \ DOMAIN s.jobs : i <= o
  IN [s |-> [s EXCEPT !.savePromise = j,
                      !.jobs = (j :> [phase |-> "write",
                                      packed |-> Encode(MapValues(s.data))]) @@ s.jobs],
      wait |-> j, joined |-> FALSE]
SaveWithoutGuard(s) == StartSave(s)
Save(s) ==
  IF s.savePromise # NoJob
  THEN [s |-> s, wait |-> s.savePromise, joined |-> TRUE]
  ELSE StartSave(s)

\* lines 211-231
Create(s, obj, uuid) ==
  LET id == IF "id" \in DOMAIN obj THEN obj.id ELSE uuid
      o  == Spread(obj, [id |-> id])
      s1 == [s EXCEPT !.data = MapSet(s.data, id, o),
                      !.dirty = TRUE,
                      !.indexes = IndexAdd(s.indexes, id, o)]
  IN IF MapSize(s1.data) % s.batchSize = 0
     THEN LET sv == Save(s1) IN Out(sv.s, o, FALSE, sv.wait)
     ELSE Out(s1, o, FALSE, NoJob)

\* line 236; a returned array is the set of its <<store key, record>> elements
Read(s) == Out(s, {<<e[1], e[2]>> : e \in {s.data[i] : i \in 1..Len(s.data)}}, FALSE, NoJob)

UpdateClearsCache(s, id, updates) ==
  IF ~MapHas(s.data, id) THEN Out(s, Null, FALSE, NoJob)
  ELSE LET updatedObj == Spread(MapGet(s.data, id), updates)
       IN Out([s EXCEPT !.data = MapSet(s.data, id, updatedObj),
                        !.dirty = TRUE,
                        !.cache = <<>>,
                        !.indexes = IndexAdd(IndexRemove(s.indexes, id, MapGet(s.data, id)),
                                             id, updatedObj)],
              updatedObj, FALSE, NoJob)
\* lines 241-268
Update(s, id, updates) ==
  IF ~MapHas(s.data, id) THEN Out(s, Null, FALSE, NoJob)
  ELSE LET existingObj == MapGet(s.data, id)
           updatedObj  == Spread(existingObj, updates)
           removed     == IndexRemove(s.indexes, id, existingObj)
       IN Out([s EXCEPT !.data = MapSet(s.data, id, updatedObj),
                        !.dirty = TRUE,
                        !.indexes = IndexAdd(removed, id, updatedObj)],
              updatedObj, FALSE, NoJob)

DeleteMarksDirty(s, id) ==
  Out([s EXCEPT !.indexes = IF MapHas(s.data, id)
                            THEN IndexRemove(s.indexes, id, MapGet(s.data, id))
                            ELSE s.indexes,
                !.data = MapDelete(s.data, id),
                !.dirty = TRUE],
      MapHas(s.data, id), FALSE, NoJob)
\* lines 325-338
Delete(s, id) ==
  IF ~MapHas(s.data, id) THEN Out(s, FALSE, FALSE, NoJob)
  ELSE Out([s EXCEPT !.indexes = IndexRemove(s.indexes, id, MapGet(s.data, id)),
                     !.data = MapDelete(s.data, id),
                     !.dirty = TRUE],
           TRUE, FALSE, NoJob)

\* lines 280-282 and 315-316: ids.map(id => data.get(id)) without the missing ones
Materialize(s, ids) == {<<id, MapGet(s.data, id)>> : id \in {i \in ids : MapHas(s.data, i)}}

\* lines 273-284
FindByKey(s, key, value) ==
  LET cacheKey == key \o ":" \o TemplateText(value)
  IN IF CacheHas(s.cache, cacheKey)
     THEN Out([s EXCEPT !.cache = CacheTouch(s.cache, cacheKey)],
              CacheVal(s.cache, cacheKey), TRUE, NoJob)
     ELSE IF ~IndexHas(s.indexes, key, value) THEN Out(s, {}, FALSE, NoJob)
     ELSE LET results == Materialize(s, s.indexes[key][value])
          IN Out([s EXCEPT !.cache = CachePut(s.cache, cacheKey, results)],
                 results, FALSE, NoJob)

\* JSON.stringify of a predicate map, given as the sequence of its <<key, value>>
\* entries in Object.keys order
JSONStringify(query) ==
  LET RECURSIVE Members(_)
      Members(i) == IF i > Len(query) THEN ""
                    ELSE (IF i > 1 THEN "," ELSE "")
                         \o "\"" \o query[i][1] \o "\":" \o JSONValue(query[i][2])
                         \o Members(i + 1)
  IN "{" \o Members(1) \o "}"

SmallestSetTakesFirst(idx, query) ==
  LET have == {i \in 1..Len(query) : IndexHas(idx, query[i][1], query[i][2])}
      f == CHOOSE i \in have : \A j \in have : i <= j
  IN IF have = {} THEN [found |-> FALSE, ids |-> {}, key |-> Null]
     ELSE [found |-> TRUE, ids |-> idx[query[f][1]][query[f][2]], key |-> query[f][1]]
\* lines 297-311: the id set of the first predicate with the fewest ids
SmallestSet(idx, query) ==
  LET RECURSIVE Scan(_, _)
      Scan(i, best) ==
        IF i > Len(query) THEN best
        ELSE LET key == query[i][1]
                 has == IndexHas(idx, key, query[i][2])
             IN IF has /\ (~best.found
                           \/ Cardinality(idx[key][query[i][2]]) < Cardinality(best.ids))
                THEN Scan(i + 1, [found |-> TRUE, ids |-> idx[key][query[i][2]], key |-> key])
                ELSE Scan(i + 1, best)
  IN Scan(1, [found |-> FALSE, ids |-> {}, key |-> Null])

\* line 317: keys.every(key => obj[key] === query[key])
MatchesFirstOnly(obj, query) ==
  query[1][1] \in DOMAIN obj /\ obj[query[1][1]] = query[1][2]
Matches(obj, query) ==
  \A i \in 1..Len(query) : query[i][1] \in DOMAIN obj /\ obj[query[i][1]] = query[i][2]

\* lines 289-320
FindByQuery(s, query) ==
  LET cacheKey == "query:" \o JSONStringify(query)
      smallest == SmallestSet(s.indexes, query)
  IN IF CacheHas(s.cache, cacheKey)
     THEN Out([s EXCEPT !.cache = CacheTouch(s.cache, cacheKey)],
              CacheVal(s.cache, cacheKey), TRUE, NoJob)
     ELSE IF Len(query) = 0 THEN Out(s, {}, FALSE, NoJob)
     ELSE IF ~smallest.found THEN Out(s, {}, FALSE, NoJob)
     ELSE LET results == {r \in Materialize(s, smallest.ids) : Matches(r[2], query)}
          IN Out([s EXCEPT !.cache = CachePut(s.cache, cacheKey, results)],
                 results, FALSE, NoJob)

(***************************************************************************)
(* State                                                                   *)
(***************************************************************************)
VARIABLES
  data,          \* this.data: Map id -> record, in insertion order
  indexes,       \* this.indexes
  cache,         \* this.cache
  dirty,         \* this.dirty
  savePromise,   \* this.savePromise: NoJob or the job it names
  jobs,          \* running bodies of save(): job -> [phase, packed]
  batchSize,     \* this.batchSize
  isInitialized, \* this.isInitialized
  lastSave,      \* this.lastSave
  workerPool,    \* this.workerPool: per worker, the messages posted to it that it
                 \* has not answered, and whether it runs
  timers,        \* number of setInterval timers started by startAutoSave
  nLoads,        \* number of fs.readFile calls made by load()
  fs,            \* the files: path -> content
  pend,          \* where each caller's call stands
  last           \* what the last step did (returns, results, outcomes)

vars == <<data, indexes, cache, dirty, savePromise, jobs, batchSize, isInitialized, lastSave,
          workerPool, timers, nLoads, fs, pend, last>>

S == [data |-> data, indexes |-> indexes, cache |-> cache, dirty |-> dirty,
      savePromise |-> savePromise, jobs |-> jobs, batchSize |-> batchSize]
Commit(s) ==
  /\ data' = s.data
  /\ indexes' = s.indexes
  /\ cache' = s.cache
  /\ dirty' = s.dirty
  /\ savePromise' = s.savePromise
  /\ jobs' = s.jobs
  /\ batchSize' = s.batchSize

Idle == [pc |-> "idle"]
\* callers are interchangeable: a new call is made by the first idle one
IsCaller(c) == c \in Callers /\ pend[c].pc = "idle"
                 /\ \A o \in Callers : pend[o].pc = "idle" => c <= o
Waiters(j) == {c \in Callers : pend[c].pc = "awaitSave" /\ pend[c].job = j}

\* ids that occur nowhere in the state: what uuidv4() can return
ObjIds(objs) == {o.id : o \in {x \in objs : "id" \in DOMAIN x}}
SeqSet(q) == {q[i] : i \in 1..Len(q)}
IndexIds(idx) ==
  UNION {UNION {idx[k][v] : v \in DOMAIN idx[k]} : k \in DOMAIN idx}
  \cup (IF "id" \in DOMAIN idx THEN DOMAIN idx["id"] ELSE {})
UsedIds ==
  MapKeys(data) \cup ObjIds(SeqSet(MapValues(data))) \cup IndexIds(indexes)
  \cup UNION {{r[1] : r \in e.val} \cup ObjIds({r[2] : r \in e.val}) : e \in SeqSet(cache)}
  \cup UNION {ObjIds(SeqSet(jobs[j].packed.items)) : j \in DOMAIN jobs}
  \cup UNION {ObjIds(SeqSet(fs[p].items)) : p \in Paths}
FreshIds == Ids \ UsedIds

(***************************************************************************)
(* A public call.  op is [name, ...arguments].                             *)
(***************************************************************************)
Body(s, op, uuid) ==
  CASE op.name = "create"      -> Create(s, op.obj, uuid)
    [] op.name = "read"        -> Read(s)
    [] op.name = "update"      -> Update(s, op.id, op.updates)
    [] op.name = "delete"      -> Delete(s, op.id)
    [] op.name = "findByKey"   -> FindByKey(s, op.key, op.value)
    [] op.name = "findByQuery" -> FindByQuery(s, op.query)
    [] op.name = "init"        -> Out(s, Null, FALSE, NoJob)

\* the operation's code after `await this.init()`, up to its return or its
\* wait for a save
AfterBody(op, r) ==
  IF r.wait = NoJob THEN Idle
  ELSE [pc |-> "awaitSave", job |-> r.wait, op |-> op, ret |-> r.ret]
Outcome(s, op, r) ==
  [act |-> op.name, op |-> op, ret |-> r.ret, hit |-> r.hit,
   status |-> IF r.wait = NoJob THEN "returned" ELSE "waiting",
   joined |-> r.wait # NoJob /\ r.wait = s.savePromise]
Run(c, s, op, uuid) ==
  LET r == Body(s, op, uuid)
  IN /\ Commit(r.s)
     /\ pend' = [pend EXCEPT ![c] = AfterBody(op, r)]
     /\ last' = Outcome(s, op, r)

\* lines 121-124: n workers that have been posted nothing
NewWorkers(n) == [i \in 1..n |-> [queue |-> <<>>, alive |-> TRUE]]

\* lines 94-97: the worker count the machine gives, the same at every init()
CpuWorkers == IF nLoads = 0 THEN WorkerCount ELSE Len(workerPool) \div nLoads

\* lines 78-80 and 93-130: init() of a store that is not initialized, up to the
\* read of the snapshot file
StartInit(c, op) ==
  /\ nLoads < MaxInits
  /\ workerPool' = workerPool \o NewWorkers(CpuWorkers)
  /\ nLoads' = nLoads + 1
  /\ pend' = [pend EXCEPT ![c] = [pc |-> "reading", op |-> op]]
  /\ last' = [act |-> "startInit", op |-> op]
  /\ UNCHANGED <<batchSize, data, indexes, cache, dirty, savePromise, jobs, isInitialized,
                 lastSave, timers, fs>>

\* line 78: `if (this.isInitialized) return;`
Invoke(c, op, uuid) ==
  /\ DOMAIN jobs # JobIds
  /\ IF isInitialized
     THEN /\ Run(c, S, op, uuid)
          /\ UNCHANGED <<isInitialized, lastSave, workerPool, timers, nLoads, fs>>
     ELSE StartInit(c, op)

(***************************************************************************)
(* The calls the callers make                                              *)
(***************************************************************************)
CallInit ==
  \E c \in Callers :
    /\ IsCaller(c)
    /\ Invoke(c, [name |-> "init"], Null)

CallCreate(objs) ==
  \E c \in Callers, obj \in objs :
    /\ IsCaller(c)
    /\ \E uuid \in (IF "id" \in DOMAIN obj \/ ~isInitialized THEN {Null} ELSE FreshIds) :
         Invoke(c, [name |-> "create", obj |-> obj], uuid)

CallRead ==
  \E c \in Callers :
    /\ IsCaller(c)
    /\ Invoke(c, [name |-> "read"], Null)

CallUpdate(patches) ==
  \E c \in Callers, id \in Ids, updates \in patches :
    /\ IsCaller(c)
    /\ Invoke(c, [name |-> "update", id |-> id, updates |-> updates], Null)

CallDelete ==
  \E c \in Callers, id \in Ids :
    /\ IsCaller(c)
    /\ Invoke(c, [name |-> "delete", id |-> id], Null)

CallFindByKey(lookups) ==
  \E c \in Callers, kv \in lookups :
    /\ IsCaller(c)
    /\ Invoke(c, [name |-> "findByKey", key |-> kv[1], value |-> kv[2]], Null)

CallFindByQuery(queries) ==
  \E c \in Callers, q \in queries :
    /\ IsCaller(c)
    /\ Invoke(c, [name |-> "findByQuery", query |-> q], Null)

\* a direct save(): lines 143-171 up to the first await (save does not call init)
CallSave ==
  \E c \in Callers :
    /\ IsCaller(c)
    /\ DOMAIN jobs # JobIds
    /\ LET sv == Save(S)
       IN /\ Commit(sv.s)
          /\ pend' = [pend EXCEPT ![c] = [pc |-> "awaitSave", job |-> sv.wait,
                                          op |-> [name |-> "save"], ret |-> Null]]
          /\ last' = [act |-> "save", op |-> [name |-> "save"], ret |-> Null,
                      hit |-> FALSE, status |-> "waiting", joined |-> sv.joined]
    /\ UNCHANGED <<isInitialized, lastSave, workerPool, timers, nLoads, fs>>

\* lines 86-90: one firing of the autosave interval callback that passes its test
AutoSaveTick ==
  /\ timers > 0
  /\ dirty /\ savePromise = NoJob
  /\ DOMAIN jobs # JobIds
  /\ Commit(Save(S).s)
  /\ last' = [act |-> "autosave"]
  /\ UNCHANGED <<isInitialized, lastSave, workerPool, timers, nLoads, fs, pend>>

\* the ttl of a cache entry runs out
CacheExpire ==
  \E i \in 1..Len(cache) :
    /\ cache' = SelectSeq(cache, LAMBDA e : e.key # cache[i].key)
    /\ last' = [act |-> "expire"]
    /\ UNCHANGED <<batchSize, data, indexes, dirty, savePromise, jobs, isInitialized, lastSave,
                   workerPool, timers, nLoads, fs, pend>>

(***************************************************************************)
(* The body of save() after its first await: the file operations of one    *)
(* job and the code that runs when each completes.                         *)
(***************************************************************************)
\* line 147 and 152: the file writeFile writes to
WriteInPlace == Schema
WritePath == TmpPath

\* the callers that awaited job j resume with its outcome
Settle(j, act, outcome) ==
  /\ pend' = [c \in Callers |-> IF c \in Waiters(j) THEN Idle ELSE pend[c]]
  /\ last' = [act |-> act, job |-> j, outcome |-> outcome,
              resumed |-> [c \in Waiters(j) |->
                             [op |-> pend[c].op, ret |-> pend[c].ret,
                              outcome |-> outcome]]]

JobsWithout(j) == [i \in DOMAIN jobs \ {j} |-> jobs[i]]

\* line 152: writeFile opens the file, truncating it
WriteOpen ==
  \E j \in DOMAIN jobs :
    /\ jobs[j].phase = "write"
    /\ jobs' = [jobs EXCEPT ![j].phase = "writing"]
    /\ fs' = [fs EXCEPT ![WritePath] = Truncated]
    /\ last' = [act |-> "io"]
    /\ UNCHANGED <<batchSize, data, indexes, cache, dirty, savePromise, isInitialized, lastSave,
                   workerPool, timers, nLoads, pend>>

\* line 152 completes; lines 153-156: rename is called
WriteDone ==
  \E j \in DOMAIN jobs :
    /\ jobs[j].phase = "writing"
    /\ jobs' = [jobs EXCEPT ![j].phase = "rename"]
    /\ fs' = [fs EXCEPT ![WritePath] = jobs[j].packed]
    /\ last' = [act |-> "io"]
    /\ UNCHANGED <<batchSize, data, indexes, cache, dirty, savePromise, isInitialized, lastSave,
                   workerPool, timers, nLoads, pend>>

\* line 152 or lines 153-156 reject; lines 159-162: unlink is called
WriteOrRenameFails ==
  \E j \in DOMAIN jobs :
    /\ jobs[j].phase \in {"write", "writing", "rename"}
    /\ jobs' = [jobs EXCEPT ![j].phase = "unlink"]
    /\ last' = [act |-> "io"]
    /\ UNCHANGED <<batchSize, data, indexes, cache, dirty, savePromise, isInitialized, lastSave,
                   workerPool, timers, nLoads, fs, pend>>

\* lines 157-158: what a completed rename is followed by
AfterRename(t) == dirty' = FALSE /\ lastSave' = t

\* lines 153-158 and 165-167: the rename completes; the save resolves
RenameDone ==
  \E j \in DOMAIN jobs, t \in lastSave..MaxTime :
    /\ jobs[j].phase = "rename"
    /\ fs[TmpPath].kind # "absent"
    /\ fs' = [fs EXCEPT ![Schema] = fs[TmpPath], ![TmpPath] = Absent]
    /\ AfterRename(t)
    /\ savePromise' = NoJob
    /\ jobs' = JobsWithout(j)
    /\ Settle(j, "saveDone", "ok")
    /\ UNCHANGED <<batchSize, data, indexes, cache, isInitialized, workerPool, timers, nLoads>>

\* lines 165-167: what a failed save leaves in this.savePromise
AfterFailureKeepsPromise == savePromise' = savePromise
AfterFailure == savePromise' = NoJob

\* lines 161-167: the unlink settles (its failure is swallowed); the save rejects
UnlinkDone ==
  \E j \in DOMAIN jobs, removed \in BOOLEAN :
    /\ jobs[j].phase = "unlink"
    /\ fs' = IF removed THEN [fs EXCEPT ![TmpPath] = Absent] ELSE fs
    /\ AfterFailure
    /\ jobs' = JobsWithout(j)
    /\ Settle(j, "saveFailed", "error")
    /\ UNCHANGED <<batchSize, data, indexes, cache, dirty, isInitialized, lastSave, workerPool,
                   timers, nLoads>>

(***************************************************************************)
(* load() and buildIndexes(): the rest of init() once the read settles     *)
(***************************************************************************)
\* lines 174-178: the chunks posted to the n workers of the pool
Chunks(entries, n) ==
  LET chunkSize == (Len(entries) + n - 1) \div n
      Min(a, b) == IF a < b THEN a ELSE b
  IN [i \in 1..n |-> SubSeq(entries, (i - 1) * chunkSize + 1,
                            Min(i * chunkSize, Len(entries)))]

\* lines 191-206: the union of the workers' indexes
MergeIndexes(results) ==
  LET Union2(a, b) ==
        [k \in DOMAIN a \cup DOMAIN b |->
           LET va == IF k \in DOMAIN a THEN a[k] ELSE EmptyIndex
               vb == IF k \in DOMAIN b THEN b[k] ELSE EmptyIndex
           IN [v \in DOMAIN va \cup DOMAIN vb |->
                 (IF v \in DOMAIN va THEN va[v] ELSE {})
                 \cup (IF v \in DOMAIN vb THEN vb[v] ELSE {})]]
      RECURSIVE Fold(_, _)
      Fold(acc, i) == IF i > Len(results) THEN acc
                      ELSE Fold(Union2(acc, results[i]), i + 1)
  IN Fold(EmptyIndex, 1)

\* lines 173-207, each worker answering with the index of the chunk it was sent
BuildIndexes(chunks) ==
  MergeIndexes([i \in 1..Len(chunks) |-> BuildIndexChunk(chunks[i])])

\* lines 134-139: what load() does with an error
CatchSwallowsAll(err) == "empty"
Catch(err) == IF err = "ENOENT" THEN "empty" ELSE "throw"

\* lines 81-82
FinishInit ==
  /\ timers' = timers + 1
  /\ isInitialized' = TRUE

UuidChoices(op) ==
  IF op.name = "create" /\ "id" \notin DOMAIN op.obj THEN FreshIds ELSE {Null}

\* lines 130-131 throw, lines 134-140; then lines 81-82 and the operation, or the
\* error leaves init() and the operation
LoadFails ==
  \E c \in Callers, err \in {"ENOENT", "EIO", "DECODE"} :
    /\ pend[c].pc = "reading"
    /\ DOMAIN jobs # JobIds
    /\ CASE err = "ENOENT" -> fs[Schema].kind = "absent"
         [] err = "EIO"    -> fs[Schema].kind # "absent"
         [] err = "DECODE" -> fs[Schema].kind # "absent" /\ ~CanDecode(fs[Schema])
    /\ IF Catch(err) = "empty"
       THEN /\ \E uuid \in UuidChoices(pend[c].op) :
                 Run(c, [S EXCEPT !.data = <<>>], pend[c].op, uuid)
            /\ FinishInit
            /\ UNCHANGED <<lastSave, workerPool, nLoads, fs>>
       ELSE /\ pend' = [pend EXCEPT ![c] = Idle]
            /\ last' = [act |-> pend[c].op.name, op |-> pend[c].op,
                        status |-> "threw", err |-> err]
            /\ UNCHANGED <<batchSize, data, indexes, cache, dirty, savePromise, jobs,
                           isInitialized, lastSave, workerPool, timers, nLoads, fs>>

\* the callers whose buildIndexes waits for answers of the workers
Building == {c \in Callers : pend[c].pc = "building"}

\* lines 130-133 and 174-189: the file is read and decoded, this.data replaced,
\* one chunk posted to each worker of the pool and a listener registered for
\* one message of each (a message is the chunk; from names the caller whose
\* build posted it)
LoadReads ==
  \E c \in Callers :
    /\ pend[c].pc = "reading"
    /\ CanDecode(fs[Schema])
    /\ data' = MapFromItems(Decode(fs[Schema]))
    /\ LET chunks == Chunks(data', Len(workerPool))
           ord == IF Building = {} THEN 1
                  ELSE 1 + (CHOOSE m \in {pend[o].ord : o \in Building} :
                              \A o \in Building : pend[o].ord <= m)
       IN /\ workerPool' = [i \in 1..Len(workerPool) |->
                              [workerPool[i] EXCEPT !.queue =
                                 Append(@, [chunk |-> chunks[i], from |-> c])]]
          /\ pend' = [pend EXCEPT ![c] = [pc |-> "building", op |-> pend[c].op,
                                          chunks |-> chunks, ord |-> ord,
                                          got |-> [i \in {} |-> EmptyIndex]]]
    /\ last' = [act |-> "loaded"]
    /\ UNCHANGED <<batchSize, indexes, cache, dirty, savePromise, jobs, isInitialized, lastSave,
                   timers, nLoads, fs>>

\* the callers in set cs, ordered by the time they registered their listeners
InOrder(cs) ==
  LET RECURSIVE Sorted(_)
      Sorted(rest) ==
        IF rest = {} THEN <<>>
        ELSE LET c == CHOOSE x \in rest : \A o \in rest : pend[x].ord <= pend[o].ord
             IN <<c>> \o Sorted(rest \ {c})
  IN Sorted(cs)

\* lines 81-82 and the operations of the callers whose init() completes in one
\* turn of the event loop, in the order of order; u gives the uuid of each
Resume(s, order, u) ==
  LET RECURSIVE Go(_, _, _, _)
      Go(i, st, pd, lst) ==
        IF i > Len(order) THEN [s |-> st, pend |-> pd, last |-> lst]
        ELSE LET c == order[i]
                 r == Body(st, pend[c].op, u[c])
             IN Go(i + 1, r.s, [pd EXCEPT ![c] = AfterBody(pend[c].op, r)],
                   Outcome(st, pend[c].op, r))
  IN Go(1, s, pend, last)

\* line 116 and lines 186-207: worker w answers the first message in its queue
\* with the index of that chunk; every listener registered on w for one
\* message gets this answer; the builds that now have an answer for each of
\* their chunks merge what they got into this.indexes, their init() completes
\* and their operations run
WorkerAnswers ==
  \E w \in 1..Len(workerPool) :
    /\ workerPool[w].alive /\ workerPool[w].queue # <<>>
    /\ DOMAIN jobs # JobIds
    /\ LET answer == BuildIndexChunk(Head(workerPool[w].queue).chunk)
           hears == {c \in Building : w <= Len(pend[c].chunks) /\ w \notin DOMAIN pend[c].got}
           got(c) == [i \in DOMAIN pend[c].got \cup {w} |->
                        IF i = w THEN answer ELSE pend[c].got[i]]
           done == {c \in hears : DOMAIN got(c) = 1..Len(pend[c].chunks)}
           order == InOrder(done)
           merged == MergeIndexes([i \in 1..Len(pend[order[Len(order)]].chunks) |->
                                     got(order[Len(order)])[i]])
       IN /\ workerPool' = [workerPool EXCEPT ![w].queue = Tail(@)]
          /\ IF done = {}
             THEN /\ pend' = [c \in Callers |->
                                IF c \in hears THEN [pend[c] EXCEPT !.got = got(c)] ELSE pend[c]]
                  /\ last' = [act |-> "answer"]
                  /\ UNCHANGED <<batchSize, data, indexes, cache, dirty, savePromise, jobs,
                                 isInitialized, timers>>
             ELSE \E u \in [done -> Ids \cup {Null}] :
                    /\ \A c \in done : u[c] \in UuidChoices(pend[c].op)
                    /\ \A c, o \in done : c # o /\ u[c] # Null => u[c] # u[o]
                    /\ LET res == Resume([S EXCEPT !.indexes = merged], order, u)
                       IN /\ Commit(res.s)
                          /\ pend' = [c \in Callers |->
                                        IF c \in done THEN res.pend[c]
                                        ELSE IF c \in hears THEN [pend[c] EXCEPT !.got = got(c)]
                                        ELSE pend[c]]
                          /\ last' = res.last
                    /\ timers' = timers + Cardinality(done)
                    /\ isInitialized' = TRUE
    /\ UNCHANGED <<lastSave, nLoads, fs>>

\* while the store is initializing a worker stops (its script throws or its
\* thread exits) with a message in its queue, the first worker to do so: it
\* answers nothing any more
WorkerFails ==
  \E w \in 1..Len(workerPool) :
    /\ ~isInitialized
    /\ \A v \in 1..Len(workerPool) : workerPool[v].alive
    /\ workerPool[w].queue # <<>>
    /\ workerPool' = [workerPool EXCEPT ![w].alive = FALSE]
    /\ last' = [act |-> "workerFailed"]
    /\ UNCHANGED <<batchSize, data, indexes, cache, dirty, savePromise, jobs, isInitialized,
                   lastSave, timers, nLoads, fs, pend>>

\* the index computed over a whole record map: index[k][v] = the keys of the
\* records with k = v
ReferenceIndex(d) ==
  LET recs(k) == {i \in 1..Len(d) : k \in DOMAIN d[i][2]}
      keys == UNION {DOMAIN d[i][2] : i \in 1..Len(d)}
  IN [k \in keys |->
        [v \in {d[i][2][k] : i \in recs(k)} |->
           {d[i][1] : i \in {j \in recs(k) : d[j][2][k] = v}}]]

\* lines 59-83 and 127-141: the store is dropped and a new Database on the same
\* file runs its init() to completion
Reopen ==
  /\ isInitialized /\ savePromise = NoJob
  /\ \A c \in Callers : pend[c] = Idle
  /\ fs[Schema].kind = "absent" \/ CanDecode(fs[Schema])
  /\ data' = IF fs[Schema].kind = "absent" THEN <<>>
             ELSE MapFromItems(Decode(fs[Schema]))
  /\ indexes' = IF fs[Schema].kind = "absent" THEN EmptyIndex
                ELSE BuildIndexes(Chunks(data', WorkerCount))
  /\ cache' = <<>>
  /\ dirty' = FALSE
  /\ last' = [act |-> "reopen"]
  /\ UNCHANGED <<batchSize, savePromise, jobs, isInitialized, lastSave, workerPool, timers,
                 nLoads, fs, pend>>

(***************************************************************************)
(* Specifications                                                          *)
(***************************************************************************)
Sample == << [id |-> Str("x"), a |-> Num("1")] >>
NoJobs == [j \in {} |-> 0]

\* lines 59-75: a new Database, the snapshot file absent, written or damaged
InitBoot ==
  /\ data = <<>>
  /\ indexes = EmptyIndex
  /\ cache = <<>>
  /\ dirty = FALSE
  /\ savePromise = NoJob
  /\ jobs = NoJobs
  /\ batchSize = DefaultBatch
  /\ isInitialized = FALSE
  /\ lastSave = 0
  /\ workerPool = <<>>
  /\ timers = 0
  /\ nLoads = 0
  /\ fs \in {[p \in Paths |-> IF p = Schema THEN c ELSE Absent] :
               c \in {Absent, Encode(Sample), Truncated}}
  /\ pend = [c \in Callers |-> Idle]
  /\ last = [act |-> "new"]

\* SpecBuild: the snapshots of up to MaxRecords records over three ids
BuildRecords == {[id |-> i, a |-> Num("1")] : i \in Ids \cup {Str("z")}}
BuildFiles == UNION {[1..n -> BuildRecords] : n \in 0..MaxRecords}

\* lines 59-75, 78-80 and 93-130: a new Database whose first init() has created
\* its workers, as many as the machine gives it, and waits for the read of the
\* snapshot file
InitBuild ==
  /\ data = <<>>
  /\ indexes = EmptyIndex
  /\ cache = <<>>
  /\ dirty = FALSE
  /\ savePromise = NoJob
  /\ jobs = NoJobs
  /\ batchSize = DefaultBatch
  /\ isInitialized = FALSE
  /\ lastSave = 0
  /\ workerPool \in {NewWorkers(n) : n \in 1..MaxWorkers}
  /\ timers = 0
  /\ nLoads = 1
  /\ fs \in {[p \in Paths |-> IF p = Schema THEN Encode(f) ELSE Absent] : f \in BuildFiles}
  /\ pend = [c \in Callers |-> IF c = 1 THEN [pc |-> "reading", op |-> [name |-> "init"]]
                                ELSE Idle]
  /\ last = [act |-> "startInit", op |-> [name |-> "init"]]

\* a Database with batch size b whose one init() has completed
Booted(b) ==
  /\ batchSize = b
  /\ fs \in {[p \in Paths |-> IF p = Schema THEN c ELSE Absent] :
               c \in {Absent, Encode(Sample)}}
  /\ data = MapFromItems(Decode(fs[Schema]))
  /\ indexes = IF fs[Schema].kind = "absent" THEN EmptyIndex
               ELSE BuildIndexes(Chunks(data, WorkerCount))
  /\ cache = <<>>
  /\ dirty = FALSE
  /\ savePromise = NoJob
  /\ jobs = NoJobs
  /\ isInitialized = TRUE
  /\ lastSave = 0
  /\ workerPool = NewWorkers(WorkerCount)
  /\ timers = 1
  /\ nLoads = 1
  /\ pend = [c \in Callers |-> Idle]
Initialized(b) ==
  /\ Booted(b)
  /\ last = [act |-> "init", op |-> [name |-> "init"], ret |-> Null,
             hit |-> FALSE, status |-> "returned", joined |-> FALSE]

(***************************************************************************)
(* The calls made in each specification                                    *)
(***************************************************************************)
\* Spec: records with and without the field a, created with and without an id;
\* updates that change a and that change id
CreateObjs == {ObjOf(i, Num("1")) : i \in Ids \cup {Null}} \cup {ObjOf(Str("y"), Null)}
Patches == {ObjOf(Null, Num("2")), ObjOf(Str("y"), Null)}
KeyLookups == {<<"a", Num("1")>>, <<"id", Str("x")>>}
Queries == { <<>>,
             << <<"a", Num("1")>> >>,
             << <<"a", Num("1")>>, <<"id", Str("x")>> >> }
\* SpecSave: every record has a = 1; an update rewrites it (the store is marked
\* dirty, the record set stays)
SaveObjs == {ObjOf(i, Num("1")) : i \in Ids \cup {Null}}
SavePatches == {ObjOf(Null, Num("1"))}
\* SpecBoot
BootObjs == {ObjOf(i, Num("1")) : i \in {Str("y"), Null}}

\* SpecTrip: a record can hold undefined, and an update can rename its id
TripObjs == {ObjOf(Null, Num("1")), ObjOf(Str("y"), Undefined)}
TripPatches == {ObjOf(Str("y"), Null)}

\* Spec: the record store, the index, the queries and the cache of an initialized
\* store with the default batch size, which the store does not reach, between
\* two autosaves.
Next ==
  \/ CallInit
  \/ CallCreate(CreateObjs)
  \/ CallRead
  \/ CallUpdate(Patches)
  \/ CallDelete
  \/ CallFindByKey(KeyLookups)
  \/ CallFindByQuery(Queries)
  \/ CacheExpire

\* SpecSave: mutations and saves of an initialized store with a small batch size
NextSave ==
  \/ CallCreate(SaveObjs)
  \/ CallUpdate(SavePatches)
  \/ CallDelete
  \/ CallSave
  \/ AutoSaveTick
  \/ WriteOpen
  \/ WriteDone
  \/ WriteOrRenameFails
  \/ RenameDone
  \/ UnlinkDone

\* SpecBoot: calls on a new store, before and after its initialization
NextBoot ==
  \/ CallInit
  \/ CallCreate(BootObjs)
  \/ CallRead
  \/ CallDelete
  \/ CallFindByKey(KeyLookups)
  \/ LoadFails
  \/ LoadReads
  \/ WorkerAnswers

\* SpecTrip: mutations, saves that succeed, and a new store opened on the file
NextTrip ==
  \/ CallCreate(TripObjs)
  \/ CallUpdate(TripPatches)
  \/ CallDelete
  \/ CallSave
  \/ WriteOpen
  \/ WriteDone
  \/ RenameDone
  \/ Reopen

\* SpecBuild: the load and the index build of snapshots of every size by pools
\* of every size, a worker that stops, and lookups by the indexed field
BuildLookups == {<<"a", Num("1")>>}
NextBuild ==
  \/ LoadReads
  \/ WorkerAnswers
  \/ WorkerFails
  \/ CallFindByKey(BuildLookups)

\* SpecLive: creates on an initialized store whose autosave interval keeps
\* firing and whose file operations all succeed
LiveObjs == {ObjOf(i, v) : i \in Ids, v \in FieldVals}
NextLive ==
  \/ CallCreate(LiveObjs)
  \/ AutoSaveTick
  \/ WriteOpen
  \/ WriteDone
  \/ RenameDone

\* SpecKeys: lookups whose arguments differ and whose cache keys have the same
\* text, over records that hold these values
KeyObjs == {ObjOf(Str("x"), Num("1")), ObjOf(Str("y"), Str("1")), ObjOf(Str("y"), Str("b:c"))}
TextLookups == {<<"a", Num("1")>>, <<"a", Str("1")>>,
                <<"a", Str("b:c")>>, <<"a:b", Str("c")>>,
                <<"query", Str("{\"a\":1}")>>}
TextQueries == { << <<"a", Num("1")>> >> }
NextKeys ==
  \/ CallCreate(KeyObjs)
  \/ CallFindByKey(TextLookups)
  \/ CallFindByQuery(TextQueries)
  \/ CacheExpire

Init == Initialized(DefaultBatch)
InitSave == Initialized(SmallBatch)
InitLive == Booted(DefaultBatch) /\ last = [act |-> "init"]

Spec == Init /\ [][Next]_vars
SpecSave == InitSave /\ [][NextSave]_vars
SpecBoot == InitBoot /\ [][NextBoot]_vars
SpecTrip == Init /\ [][NextTrip]_vars
\* lines 85-91: the interval timer keeps firing, so a tick that passes the test
\* of line 87 comes while the test stays true; a file operation that was
\* started completes (each of these steps changes jobs)
SpecLive ==
  /\ InitLive /\ [][NextLive]_vars
  /\ WF_jobs(AutoSaveTick)
  /\ WF_jobs(WriteOpen) /\ WF_jobs(WriteDone) /\ WF_jobs(RenameDone)
SpecBuild == InitBuild /\ [][NextBuild]_vars
SpecKeys == Init /\ [][NextKeys]_vars

(***************************************************************************)
(* Properties                                                              *)
(***************************************************************************)
StoredEntries == {<<data[i][1], data[i][2]>> : i \in 1..Len(data)}
StoredRecords == {data[i][2] : i \in 1..Len(data)}
Holders(k, v) == {e[1] : e \in {x \in StoredEntries : k \in DOMAIN x[2] /\ x[2][k] = v}}
Satisfying(q) ==
  {e \in StoredEntries : \A i \in 1..Len(q) : q[i][1] \in DOMAIN e[2] /\ e[2][q[i][1]] = q[i][2]}
IsOp(name) == "op" \in DOMAIN last /\ last.op.name = name
Returned(name) == IsOp(name) /\ last.status = "returned"

\* C1: after every create/update/delete, for every field k and value v held by a
\* stored record, index[k][v] is exactly the set of store ids of the records
\* holding k = v, and no id of a record that no longer holds k = v remains
\* under (k, v).
C1_IndexConsistent ==
  \A k \in Fields, v \in Values :
    /\ Holders(k, v) # {} => IndexHas(indexes, k, v) /\ indexes[k][v] = Holders(k, v)
    /\ IndexHas(indexes, k, v) => indexes[k][v] \subseteq Holders(k, v)

\* C2 as stated: every findByQuery(p), cached or not, returns exactly the stored
\* records that satisfy every predicate of p, and an empty p returns nothing.
C2_QueryExactAlways ==
  Returned("findByQuery") =>
    last.ret = (IF Len(last.op.query) = 0 THEN {} ELSE Satisfying(last.op.query))

\* C2 amended: a findByQuery(p) that the cache does not answer returns exactly
\* the stored records that satisfy every predicate of p, and nothing for an
\* empty p.
C2_QueryExactOnMiss ==
  Returned("findByQuery") /\ ~last.hit =>
    last.ret = (IF Len(last.op.query) = 0 THEN {} ELSE Satisfying(last.op.query))

\* C2 witness: an uncached two-predicate query answered with a record while the
\* store holds another record that it leaves out
C2_Witness ==
  /\ Returned("findByQuery") /\ ~last.hit
  /\ Len(last.op.query) = 2
  /\ last.ret # {}
  /\ last.ret # StoredEntries

\* C3: whenever the store is clean and no save is in flight, the snapshot file
\* holds exactly the records of the store.
C3_DirtySound ==
  ~dirty /\ savePromise = NoJob => SeqSet(fs[Schema].items) = StoredRecords

\* C4: at most one save job runs at a time; the callers that wait for a save
\* all wait for that one job (so they settle with its outcome), none is left
\* waiting once it has settled, and a save() that finds no job in flight
\* starts a fresh write of the current records.
C4_SaveCoalesced ==
  /\ Cardinality(DOMAIN jobs) <= 1
  /\ savePromise = NoJob <=> DOMAIN jobs = {}
  /\ \A c \in Callers : pend[c].pc = "awaitSave" =>
       pend[c].job = savePromise /\ pend[c].job \in DOMAIN jobs
  /\ last.act \in {"saveDone", "saveFailed"} =>
       /\ savePromise = NoJob
       /\ \A c \in DOMAIN last.resumed : last.resumed[c].outcome = last.outcome
  /\ IsOp("save") /\ ~last.joined =>
       /\ jobs[savePromise].phase = "write"
       /\ jobs[savePromise].packed = Encode(MapValues(data))

\* C4 witness: a save() has joined the job in flight, and two callers wait for it
C4_Witness ==
  /\ IsOp("save") /\ last.joined
  /\ \A c \in {1, 2} : pend[c].pc = "awaitSave" /\ pend[c].job = savePromise
  /\ jobs[savePromise].phase = "rename"

\* what a load() of the snapshot file would do with it: lines 130-139
Loadable(content) ==
  IF content.kind = "absent" THEN Catch("ENOENT") = "empty" ELSE CanDecode(content)

\* C5: at every step of a save, where an interruption would leave the files as
\* they are, the snapshot file is absent or a complete encoded record sequence
\* that load() accepts; it changes only in the rename, from the complete
\* previous snapshot to the complete record array the save captured; a partly
\* written file is only ever the temp file.
C5_SaveAtomic ==
  /\ [](Loadable(fs[Schema]))
  /\ [][fs'[Schema] # fs[Schema] =>
          \E j \in DOMAIN jobs :
            /\ jobs[j].phase = "rename"
            /\ fs'[Schema] = jobs[j].packed
            /\ jobs[j].packed = fs[TmpPath]]_vars

\* C5 witness: the temp file is open and truncated by a save in progress while
\* the snapshot file still holds the complete previous snapshot
C5_Witness ==
  /\ \E j \in DOMAIN jobs : jobs[j].phase = "writing"
  /\ fs[TmpPath] = Truncated
  /\ fs[Schema] = Encode(Sample)
  /\ StoredRecords # SeqSet(Sample)

\* C6: when a save completes, every create that waited for it because it
\* brought the store size to a multiple of batchSize finds its record in the
\* snapshot that save wrote.
C6_BatchCreateDurable ==
  last.act = "saveDone" =>
    \A c \in DOMAIN last.resumed :
      last.resumed[c].op.name = "create" =>
        last.resumed[c].ret \in SeqSet(fs[Schema].items)

\* C7: whatever init invocations are made, overlapping or not, the snapshot is
\* read at most once, one worker pool is created and at most one autosave timer
\* is started.
C7_InitOnce ==
  /\ nLoads <= 1
  /\ Len(workerPool) <= WorkerCount
  /\ timers <= 1

\* the step in which a failed save rejects: its unlink has settled
SaveRejects == \E j \in DOMAIN jobs : jobs[j].phase = "unlink" /\ j \notin DOMAIN jobs'

\* C8 as stated: when a save fails, the temp file is removed, every caller
\* joined on the save gets the error, the dirty flag is set, the last-save
\* time and the snapshot file are unchanged, and no save is in flight.
C8_SaveFailureRemovesTemp ==
  [][SaveRejects =>
       /\ fs'[TmpPath] = Absent
       /\ dirty'
       /\ lastSave' = lastSave /\ fs'[Schema] = fs[Schema]
       /\ savePromise' = NoJob /\ DOMAIN jobs' = {}
       /\ \A c \in Waiters(savePromise) :
            pend'[c] = Idle /\ last'.resumed[c].outcome = "error"]_vars

\* C8 amended: when a save fails, the temp file is removed if the unlink
\* succeeds and left as it is otherwise, every caller joined on the save gets
\* the error, the dirty flag, the last-save time and the snapshot file are
\* left as they were, and no save is in flight, so that the next save() starts
\* a fresh write.
C8_SaveFailure ==
  [][SaveRejects =>
       /\ fs'[TmpPath] \in {Absent, fs[TmpPath]}
       /\ dirty' = dirty
       /\ lastSave' = lastSave /\ fs'[Schema] = fs[Schema]
       /\ savePromise' = NoJob /\ DOMAIN jobs' = {}
       /\ Save([S EXCEPT !.savePromise = savePromise', !.jobs = jobs']).joined = FALSE
       /\ \A c \in Waiters(savePromise) :
            pend'[c] = Idle /\ last'.resumed[c].outcome = "error"]_vars

\* C8 witness: a save that two callers waited for has failed with unsaved
\* changes in the store, and its temp file is left behind
C8_Witness ==
  /\ last.act = "saveFailed"
  /\ Cardinality(DOMAIN last.resumed) = 2
  /\ dirty /\ savePromise = NoJob
  /\ fs[TmpPath] # Absent

\* C9: a findByKey(field, value) that the cache does not answer returns exactly
\* the stored records whose field equals value.
C9_FindByKeyExactOnMiss ==
  Returned("findByKey") /\ ~last.hit =>
    last.ret = {e \in StoredEntries :
                  last.op.key \in DOMAIN e[2] /\ e[2][last.op.key] = last.op.value}

\* the step in which the read of the snapshot file made by caller c's init
\* settles
ReadSettles(c) == pend[c].pc = "reading" /\ pend'[c].pc # "reading"

\* C10: when the read of the snapshot file settles and the file does not
\* exist, init completes (store initialized, autosave timer started), the
\* record set is empty and the operation that triggered init runs on it; when
\* the read or the decoding fails otherwise, the error leaves init and the
\* operation, and records, index, cache, dirty flag, files, initialized flag
\* and timers are as they were.
C10_LoadOutcomes ==
  [][\A c \in Callers : ReadSettles(c) =>
       IF fs[Schema].kind = "absent"
       THEN /\ isInitialized' /\ timers' = timers + 1
            /\ last'.status # "threw"
            /\ last'.op = pend[c].op
            /\ \E uuid \in Ids \cup {Null} :
                 LET r == Body([S EXCEPT !.data = <<>>], pend[c].op, uuid)
                 IN data' = r.s.data /\ last'.ret = r.ret
            /\ Len(data') <= 1
       ELSE \/ pend'[c].pc = "building" /\ CanDecode(fs[Schema])
            \/ /\ pend'[c] = Idle
               /\ last'.status = "threw" /\ last'.op = pend[c].op
               /\ UNCHANGED <<data, indexes, cache, dirty, savePromise, fs,
                              isInitialized, timers>>]_vars

\* C10 witness: an operation on a new store has thrown the error of the
\* snapshot read; the store is not initialized and has no timer
C10_Witness ==
  /\ "status" \in DOMAIN last /\ last.status = "threw"
  /\ last.op.name = "create"
  /\ ~isInitialized /\ timers = 0 /\ data = <<>>

\* the step is a call of update or delete that names an id the store does not hold
NotFoundCall ==
  /\ "op" \in DOMAIN last' /\ last'.op.name \in {"update", "delete"}
  /\ last'.status = "returned"
  /\ ~MapHas(data, last'.op.id)

\* C11: update(id, partial) with an id not in the store returns null and
\* delete(id) with an id not in the store returns false; both leave the record
\* set, the index, the cache, the dirty flag and the save state as they were.
C11_NotFoundNoEffect ==
  [][NotFoundCall =>
       /\ last'.ret = (IF last'.op.name = "update" THEN Null ELSE FALSE)
       /\ UNCHANGED <<data, indexes, cache, dirty, savePromise, jobs, lastSave, fs>>]_vars

\* C11 witness: an update of an id that is not stored has returned null on a
\* clean store that holds a record and a cached result
C11_Witness ==
  /\ Returned("update") /\ ~MapHas(data, last.op.id)
  /\ last.ret = Null
  /\ data # <<>> /\ cache # <<>> /\ ~dirty

\* the step opens a new store on a snapshot file that a save wrote from the
\* records the old store still holds
ReloadsSaved == last'.act = "reopen" /\ fs[Schema] = Encode(MapValues(data))

\* C12: a load, into a new store, of the snapshot that a save wrote from the
\* current records yields the same records under the same keys, as many as
\* there were, and an index that is the reference index of these records.
C12_RoundTrip ==
  [][ReloadsSaved =>
       /\ Len(data') = Len(data)
       /\ {<<data'[i][1], data'[i][2]>> : i \in 1..Len(data')} = StoredEntries
       /\ indexes' = ReferenceIndex(data')]_vars

\* the predicates of query q that have an index entry for their value, and the
\* id set of the i-th
Indexed(q) == {i \in 1..Len(q) : IndexHas(indexes, q[i][1], q[i][2])}
IdSet(q, i) == indexes[q[i][1]][q[i][2]]

\* C13: on a findByQuery cache miss the driving set is the id set of the first
\* predicate with the fewest ids among the predicates that have an index
\* entry; filtering the records of any of these id sets by all predicates
\* gives the same result as filtering all stored records, which is what is
\* returned; with no index entry for any predicate the result is empty.
C13_SmallestSetSound ==
  Returned("findByQuery") /\ ~last.hit /\ Len(last.op.query) > 0 =>
    LET q == last.op.query
        drive == SmallestSet(indexes, q)
    IN /\ Indexed(q) = {} => ~drive.found /\ last.ret = {}
       /\ Indexed(q) # {} =>
            /\ drive.found
            /\ \E i \in Indexed(q) :
                 /\ drive.key = q[i][1] /\ drive.ids = IdSet(q, i)
                 /\ \A j \in Indexed(q) :
                      /\ Cardinality(IdSet(q, i)) <= Cardinality(IdSet(q, j))
                      /\ Cardinality(IdSet(q, i)) = Cardinality(IdSet(q, j)) => i <= j
            /\ \A i \in Indexed(q) :
                 {r \in Materialize(S, IdSet(q, i)) : r \in Satisfying(q)} = Satisfying(q)
            /\ last.ret = Satisfying(q)

\* C13 witness: an uncached query of two predicates, both with an index entry,
\* was driven by the second, whose id set is the smaller, and found a record
C13_Witness ==
  /\ Returned("findByQuery") /\ ~last.hit /\ Len(last.op.query) = 2
  /\ Indexed(last.op.query) = {1, 2}
  /\ Cardinality(IdSet(last.op.query, 2)) < Cardinality(IdSet(last.op.query, 1))
  /\ last.ret # {}

\* the cache key of a lookup (lines 273 and 289)
Fingerprint(op) ==
  IF op.name = "findByKey" THEN op.key \o ":" \o TemplateText(op.value)
  ELSE "query:" \o JSONStringify(op.query)
\* what the lookup computes from the index and the records when the cache has
\* no entry for it
Recomputed(op) == Body([S EXCEPT !.cache = <<>>], op, Null).ret
IsLookup(l) == "op" \in DOMAIN l /\ l.op.name \in {"findByKey", "findByQuery"}
IsMutation(l) == "op" \in DOMAIN l /\ l.op.name \in {"create", "update", "delete"}

\* C14: create, update and delete leave the cache as it is and the value of a
\* cache entry, written with the result of the lookup that missed, never
\* changes while the entry is there; a lookup is answered
\* from the cache exactly when the cache holds an entry for its fingerprint,
\* with the value of that entry, and is otherwise (never cached, expired or
\* evicted) computed from the current index and records.
C14_CacheFrame ==
  [][/\ IsMutation(last') => cache' = cache
     /\ \A k \in CacheKeys(cache) \cap CacheKeys(cache') : CacheVal(cache', k) = CacheVal(cache, k)
     /\ \A k \in CacheKeys(cache') \ CacheKeys(cache) :
          /\ IsLookup(last') /\ ~last'.hit /\ k = Fingerprint(last'.op)
          /\ CacheVal(cache', k) = last'.ret
     /\ IsLookup(last') =>
          /\ last'.hit <=> CacheHas(cache, Fingerprint(last'.op))
          /\ last'.hit => last'.ret = CacheVal(cache, Fingerprint(last'.op))
          /\ ~last'.hit => last'.ret = Recomputed(last'.op)]_vars

\* C14 witness: a lookup was answered from the cache with a result that differs
\* from what the current index and records give
C14_Witness ==
  /\ IsLookup(last) /\ last.hit
  /\ last.ret # Recomputed(last.op)

\* the chunks one after the other
Flatten(chunks) ==
  LET RECURSIVE Cat(_)
      Cat(i) == IF i > Len(chunks) THEN <<>> ELSE chunks[i] \o Cat(i + 1)
  IN Cat(1)

\* C15: for every number of loaded records and of workers, the chunks posted
\* are as many as the workers and, one after the other, are the loaded entries
\* (each record in exactly one chunk); while the store is initializing its
\* index changes only when the build completes, to the merged index, which is
\* the index computed sequentially over all loaded records: index[k][v] = the
\* ids of the loaded records with k = v.
C15_BulkBuild ==
  /\ [][\A c \in Callers : pend'[c].pc = "building" /\ pend[c].pc # "building" =>
          /\ Len(pend'[c].chunks) = Len(workerPool)
          /\ Flatten(pend'[c].chunks) = data']_vars
  /\ [][~isInitialized /\ indexes' # indexes =>
          /\ \E c \in Callers : pend[c].pc = "building" /\ pend'[c].pc # "building"
          /\ indexes' = BuildIndexChunk(data)
          /\ indexes' = ReferenceIndex(data)]_vars
  /\ [](isInitialized => indexes = ReferenceIndex(data))

\* C16: once a worker has stopped without returning the index of a chunk it was
\* sent during the initial build, the init() that posted this chunk never
\* completes, and the store never serves an index that misses records.
Stopped == {w \in 1..Len(workerPool) : ~workerPool[w].alive}

C16_NoPartialIndex ==
  /\ \A w \in Stopped : pend[Head(workerPool[w].queue).from].pc = "building"
  /\ Stopped # {} /\ isInitialized => indexes = ReferenceIndex(data)

\* C17: with the autosave interval firing and every file operation succeeding,
\* each record a create has stored and acknowledged is eventually in the
\* snapshot file, unless a later create replaced it first.
FileRecords ==
  IF CanDecode(fs[Schema])
  THEN {Decode(fs[Schema])[k] : k \in 1..Len(Decode(fs[Schema]))}
  ELSE {}

C17_EventuallyPersisted ==
  \A o \in LiveObjs :
    (o \in StoredRecords) ~> (o \notin StoredRecords \/ o \in FileRecords)

\* C18: a record that is stored (by a create that returned, or by a load) stays
\* stored, and stays in the index under its id, in every step that does not
\* run a delete of its key: no init or load that completes later drops it.
DeleteRuns(i) ==
  \/ "op" \in DOMAIN last' /\ last'.op = [name |-> "delete", id |-> i]
  \/ \E c \in Callers : /\ "op" \in DOMAIN pend[c]
                         /\ pend[c].op = [name |-> "delete", id |-> i]
                         /\ pend'[c] # pend[c]

C18_NoLostCreate ==
  [][\A i \in MapKeys(data) :
       \/ DeleteRuns(i)
       \/ /\ MapHas(data', i)
          /\ IndexHas(indexes, "id", i) /\ i \in indexes["id"][i]
                => IndexHas(indexes', "id", i) /\ i \in indexes'["id"][i]]_vars

\* C19: every record is stored under the key that equals its id field, whatever
\* create, update and delete calls were made, an update whose partial holds a
\* different id included.
C19_KeyIsId ==
  \A e \in StoredEntries : "id" \in DOMAIN e[2] /\ e[2].id = e[1]

\* C20: a lookup that is answered from the cache entry which the lookup just
\* before it wrote is the same operation with the same field and value (or the
\* same predicate map): two different lookups never read each other's cached
\* result.
SameLookup(a, b) ==
  /\ a.name = b.name
  /\ IF a.name = "findByKey" THEN a.key = b.key /\ a.value = b.value
     ELSE a.query = b.query

C20_NoCollision ==
  [][/\ IsLookup(last) /\ ~last.hit /\ CacheHas(cache, Fingerprint(last.op))
     /\ IsLookup(last') /\ last'.hit /\ Fingerprint(last'.op) = Fingerprint(last.op)
     => SameLookup(last.op, last'.op)]_vars

====
